---- MODULE Spec2Model ----
(***************************************************************************)
(* Content-addressed PDF ingestion and deduplication pipeline.             *)
(*                                                                         *)
(* The repository holds two orchestrators named process_pdf_and_stream:    *)
(*   utility/pdf_processor1.py  (entry "utility", used by                  *)
(*                               process_pdf_and_get_result)               *)
(*   utils/pdf_processor1.py    (entry "utils"; entry "local" is the same  *)
(*                               generator wrapped by ingest_local_pdf)    *)
(* Both use data_preparation/image_data_prep.py:ImageDescription and the   *)
(* two Qdrant collections of vector_store/load_dbs.py.                     *)
(***************************************************************************)
EXTENDS Integers, Sequences, FiniteSets, TLC

\* Number of ingestion runs started in one behaviour.
MaxRuns == 2

\* Number of calls of a pure function recorded in one behaviour.
MaxCalls == 2

(***************************************************************************)
(* The file system the runs read.  A path is a string; FileAt gives what   *)
(* is stored there.  pages are the texts page.get_text("text") returns,    *)
(* images the embedded images in page order.                               *)
(***************************************************************************)
LongText == "Item 1. Business overview ..."

Paths == {"10k_PDFs/acme.pdf", "copy/acme_v2.pdf", "old/acme.pdf",
          "10k_PDFs/memo.pdf", "10k_PDFs/gone.pdf"}

FileAt(path) ==
  CASE path = "10k_PDFs/acme.pdf" ->
         [exists |-> TRUE, dir |-> "10k_PDFs", stem |-> "acme", ext |-> ".pdf",
          pages  |-> <<"Revenue grew 10%", "", "See chart below">>,
          images |-> <<[xref |-> 7, page |-> 3, bytes |-> "chart"]>>]
    [] path = "copy/acme_v2.pdf" ->
         [exists |-> TRUE, dir |-> "copy", stem |-> "acme_v2", ext |-> ".pdf",
          pages  |-> <<"Revenue grew 10%", "", "See chart below">>,
          images |-> <<[xref |-> 7, page |-> 3, bytes |-> "chart"],
                       [xref |-> 9, page |-> 3, bytes |-> "logo"]>>]
    [] path = "old/acme.pdf" ->
         [exists |-> TRUE, dir |-> "old", stem |-> "acme", ext |-> ".pdf",
          pages  |-> <<" ">>,
          images |-> <<[xref |-> 4, page |-> 1, bytes |-> "scan1"],
                       [xref |-> 5, page |-> 1, bytes |-> "scan2"]>>]
    [] path = "10k_PDFs/memo.pdf" ->
         [exists |-> TRUE, dir |-> "10k_PDFs", stem |-> "memo", ext |-> ".pdf",
          pages  |-> <<LongText>>,
          images |-> <<>>]
    [] OTHER ->
         [exists |-> FALSE, dir |-> "10k_PDFs", stem |-> "gone", ext |-> ".pdf",
          pages  |-> <<>>, images |-> <<>>]

\* os.path.exists(path)
PathExists(path) == FileAt(path).exists

\* os.path.basename(path)
Basename(path) == FileAt(path).stem \o FileAt(path).ext

\* os.path.splitext(os.path.basename(path))[0]
CompanyName(path) == FileAt(path).stem

\* text.strip() is falsy exactly for the whitespace-only page texts
BlankTexts == {"", " "}

\* "if text:" in place of "if text.strip():": a page of white space passes
StripTruthy_NonEmpty(text) == text # ""

StripTruthy(text) == text \notin BlankTexts

(***************************************************************************)
(* Content Hasher                                                          *)
(***************************************************************************)
RECURSIVE ConcatPages(_)
ConcatPages(pages) ==
  IF pages = <<>> THEN "" ELSE Head(pages) \o ConcatPages(Tail(pages))

\* hashlib.sha256(...).hexdigest(): injective, never the empty string
Sha256Hex(data) == "sha256:" \o data

\* calculate_content_hash: the digest of all page texts in page order, or ""
\* when opening or reading the file raised
calculate_content_hash(path, raised) ==
  IF raised THEN "" ELSE Sha256Hex(ConcatPages(FileAt(path).pages))

(***************************************************************************)
(* Identity Generator                                                      *)
(***************************************************************************)
\* uuid.uuid5(NAMESPACE_DNS, name): a function of the name alone
Uuid5(name) == "uuid5(" \o name \o ")"

\* ids derived from the document alone: the position of the unit in the
\* list is left out of the name that is hashed
generate_doc_id_NoIndex(doc_metadata, index, doc_type) ==
  IF doc_type = "text"
  THEN Uuid5(doc_metadata.content_hash \o "_page"
             \o ToString(doc_metadata.page_num))
  ELSE Uuid5(doc_metadata.company \o "_" \o doc_metadata.source_file)

\* the id format of an earlier revision: the page number is left out of the
\* name that is hashed
generate_doc_id_NoPage(doc_metadata, index, doc_type) ==
  IF doc_type = "text"
  THEN Uuid5(doc_metadata.content_hash \o "_" \o ToString(index))
  ELSE Uuid5(doc_metadata.company \o "_" \o doc_metadata.source_file
             \o "_" \o ToString(index))

generate_doc_id(doc_metadata, index, doc_type) ==
  IF doc_type = "text"
  THEN Uuid5(doc_metadata.content_hash \o "_page"
             \o ToString(doc_metadata.page_num) \o "_" \o ToString(index))
  ELSE Uuid5(doc_metadata.company \o "_" \o doc_metadata.source_file
             \o "_" \o ToString(index))

(***************************************************************************)
(* Vector store (one Qdrant collection): a set of points, one per id.      *)
(* A payload key a writer did not set holds Absent.                        *)
(***************************************************************************)
Absent == "<absent>"

Point(id, meta, content) ==
  [id |-> id, content_type |-> meta.content_type,
   source_file |-> meta.source_file, company |-> meta.company,
   content_hash |-> meta.content_hash,
   image_content_hash |-> meta.image_content_hash,
   page_num |-> meta.page_num, page_content |-> content]

SeqToSet(s) == {s[i] : i \in 1..Len(s)}

\* add_documents(docs, ids): upsert, a point with an id already stored is
\* replaced, and of two documents of the batch with one id the later stays
add_documents(store, docs, ids) ==
  LET last == {i \in 1..Len(docs) : \A j \in 1..Len(docs) : j > i => ids[j] # ids[i]}
      new == {Point(ids[i], docs[i].metadata, docs[i].page_content) : i \in last}
  IN  {q \in store : q.id \notin SeqToSet(ids)} \cup new

(***************************************************************************)
(* Duplicate Detector                                                      *)
(***************************************************************************)
\* points matching Filter(must=[content_type = doc_type, key = value])
Matching(store, doc_type, key, value) ==
  {q \in store : q.content_type = doc_type /\ q[key] = value}

\* The image_hashes argument: None, a dict {img_id: {"hash": h}} given as
\* the sequence of its hashes, or some other object (a str has no .items()).
NoHashes == [kind |-> "none", items |-> <<>>]
HashDict(hashes) == [kind |-> "dict", items |-> hashes]
StrObject(s) == [kind |-> "str", items |-> <<s>>]
HashesTruthy(image_hashes) ==
  \/ image_hashes.kind = "dict" /\ image_hashes.items # <<>>
  \/ image_hashes.kind = "str" /\ image_hashes.items[1] # ""

\* index of the first image hash with a stored image point, 0 when none
FirstImageHit(store, hashes) ==
  LET hit == {i \in 1..Len(hashes) :
                Matching(store, "image", "image_content_hash", hashes[i]) # {}}
  IN  IF hit = {} THEN 0 ELSE CHOOSE i \in hit : \A j \in hit : i <= j

\* TRUE when the body of check_document_exists raises: a store call fails
\* (store_fails) or image_hashes.items() does not exist
CheckRaises(doc_type, image_hashes, store_fails) ==
  \/ store_fails
  \/ doc_type = "image" /\ HashesTruthy(image_hashes)
       /\ image_hashes.kind # "dict"

\* "if content_hash is not None:" in place of "if content_hash:": the empty
\* fingerprint is used as a filter value
DocumentTier_HashAlways(store, source_file_name, doc_type, content_hash) ==
  Matching(store, doc_type, "content_hash", content_hash)

\* the filter of the document-level tier: content hash when truthy, else
\* source file name
DocumentTier(store, source_file_name, doc_type, content_hash) ==
  IF content_hash # ""
  THEN Matching(store, doc_type, "content_hash", content_hash)
  ELSE Matching(store, doc_type, "source_file", source_file_name)

\* check_document_exists(vectorstore, source_file_name, doc_type,
\* content_hash, image_hashes) -> (exists, points); content_hash None is "";
\* fails: a store call inside it raises
check_document_exists(store, name, doc_type, content_hash, image_hashes, fails) ==
  IF CheckRaises(doc_type, image_hashes, fails)
  THEN [exists |-> FALSE, points |-> {}]
  ELSE LET k == IF doc_type = "image" /\ HashesTruthy(image_hashes)
                THEN FirstImageHit(store, image_hashes.items) ELSE 0
           doc == DocumentTier(store, name, doc_type, content_hash)
       IN  IF k > 0
           THEN [exists |-> TRUE,
                 points |-> Matching(store, "image", "image_content_hash",
                                     image_hashes.items[k])]
           ELSE IF doc # {} THEN [exists |-> TRUE, points |-> doc]
                ELSE [exists |-> FALSE, points |-> {}]

\* the filters one call of check_document_exists counts against the store,
\* in order: one per image hash up to the first that is stored and then,
\* when none is, the document-level filter; none when image_hashes.items()
\* raises
StoreQueries(store, name, doc_type, content_hash, image_hashes) ==
  LET doc == <<IF content_hash # ""
               THEN [key |-> "content_hash", value |-> content_hash]
               ELSE [key |-> "source_file", value |-> name]>>
      per(n) == [i \in 1..n |-> [key |-> "image_content_hash",
                                 value |-> image_hashes.items[i]]]
      k == FirstImageHit(store, image_hashes.items)
  IN  IF doc_type = "image" /\ HashesTruthy(image_hashes)
      THEN IF image_hashes.kind # "dict" THEN <<>>
           ELSE IF k > 0 THEN per(k)
           ELSE per(Len(image_hashes.items)) \o doc
      ELSE doc

\* the three calls made without the "if not exists" guards: each call
\* overwrites the result of the one before
ImageDuplicateCheck_Unguarded(store, name, content_hash, image_hashes) ==
  LET c3 == check_document_exists(store, name, "image", "", NoHashes, FALSE)
  IN  IF ~HashesTruthy(image_hashes)
      THEN [exists |-> FALSE, points |-> {}, queries |-> <<>>]
      ELSE [exists |-> c3.exists, points |-> c3.points,
            queries |-> StoreQueries(store, name, "image", content_hash, image_hashes)
                          \o StoreQueries(store, name, "image", content_hash, NoHashes)
                          \o StoreQueries(store, name, "image", "", NoHashes)]

\* the image duplicate detection of process_pdf_and_stream: if image_hashes,
\* the check by the individual image hashes, then if not exists the check
\* by the PDF content hash, then if not exists the check by the source file
\* name; queries lists the filters sent to the store
ImageDuplicateCheck(store, name, content_hash, image_hashes) ==
  LET c1 == check_document_exists(store, name, "image", content_hash,
                                  image_hashes, FALSE)
      c2 == check_document_exists(store, name, "image", content_hash,
                                  NoHashes, FALSE)
      c3 == check_document_exists(store, name, "image", "", NoHashes, FALSE)
      q1 == StoreQueries(store, name, "image", content_hash, image_hashes)
      q2 == StoreQueries(store, name, "image", content_hash, NoHashes)
      q3 == StoreQueries(store, name, "image", "", NoHashes)
  IN  IF ~HashesTruthy(image_hashes)
      THEN [exists |-> FALSE, points |-> {}, queries |-> <<>>]
      ELSE IF c1.exists
      THEN [exists |-> TRUE, points |-> c1.points, queries |-> q1]
      ELSE IF c2.exists
      THEN [exists |-> TRUE, points |-> c2.points, queries |-> q1 \o q2]
      ELSE [exists |-> c3.exists, points |-> c3.points,
            queries |-> q1 \o q2 \o q3]

(***************************************************************************)
(* Text Segmenter                                                          *)
(***************************************************************************)
\* the per-page Documents: pages whose text strips to nothing are dropped,
\* page_num is the 1-based page number
PageDocuments(path, content_hash) ==
  LET pages == FileAt(path).pages
      kept  == SelectSeq([i \in 1..Len(pages) |-> i],
                         LAMBDA i : StripTruthy(pages[i]))
  IN  [k \in 1..Len(kept) |->
         [page_content |-> pages[kept[k]],
          metadata |-> [source_file |-> Basename(path),
                        page_num |-> kept[k],
                        company |-> CompanyName(path),
                        content_type |-> "text",
                        content_hash |-> content_hash,
                        image_content_hash |-> Absent]]]

\* windows the token splitter cuts a page text into
NumChunks(text) == IF text = LongText THEN 2 ELSE 1

ChunksOf(doc) ==
  [j \in 1..NumChunks(doc.page_content) |->
     [page_content |-> IF NumChunks(doc.page_content) = 1
                       THEN doc.page_content
                       ELSE doc.page_content \o "#" \o ToString(j),
      metadata |-> doc.metadata]]

RECURSIVE split_documents(_)
split_documents(docs) ==
  IF docs = <<>> THEN <<>>
  ELSE ChunksOf(Head(docs)) \o split_documents(Tail(docs))

\* ids = [generate_doc_id(doc.metadata, i, "text") for i, doc in enumerate(..)]
TextIds(chunks) ==
  [i \in 1..Len(chunks) |-> generate_doc_id(chunks[i].metadata, i - 1, "text")]

(***************************************************************************)
(* Image Extractor (data_preparation/image_data_prep.py)                   *)
(***************************************************************************)
Md5Hex8(bytes) == "md5:" \o bytes

\* save_images: the path the enhanced image is saved under
ImagePath(path, img) ==
  FileAt(path).dir \o "/" \o FileAt(path).stem \o "/financial_img_"
    \o ToString(img.xref) \o "_page" \o ToString(img.page) \o "_"
    \o Md5Hex8(img.bytes) \o ".png"

\* get_image_information(): the dict {img_path: context_text}, as the
\* sequence of its keys in insertion order
get_image_information(path) ==
  [i \in 1..Len(FileAt(path).images) |-> ImagePath(path, FileAt(path).images[i])]

\* image_info, image_hashes = <dict>: iterating a dict yields its keys, and
\* the unpacking raises ValueError unless there are exactly two
UnpackPair(details) ==
  IF Len(details) = 2
  THEN [ok |-> TRUE, image_info |-> details[1], image_hashes |-> details[2]]
  ELSE [ok |-> FALSE, image_info |-> "", image_hashes |-> ""]

\* the describer's reply for an image: the model answers "INVALID_IMAGE" for
\* a logo or decorative image
DescriberReply(img) ==
  IF img.bytes = "logo" THEN "INVALID_IMAGE" ELSE "A chart of " \o img.bytes

\* analyze_image_with_context: None for a reply that holds INVALID_IMAGE
NoneValue == "<None>"
analyze_image_with_context(img) ==
  IF DescriberReply(img) = "INVALID_IMAGE" THEN NoneValue ELSE DescriberReply(img)

\* top-level keys of the metadata_<file>.json the orchestrator writes
MetadataJsonKeys == <<"metadata", "ingestion_timestamp", "source_file", "company">>

\* the value the sidecar JSON file holds under a top-level key, as the text
\* an f-string makes of it: the image_info dict (its image paths), the time
\* of the run, the file name, the company name
SidecarValue(path, key) ==
  CASE key = "metadata" -> "{" \o ConcatPages(get_image_information(path)) \o "}"
    [] key = "ingestion_timestamp" -> "<timestamp>"
    [] key = "source_file" -> Basename(path)
    [] key = "company" -> CompanyName(path)

\* getRetriever(self, json_file_path, company) takes two arguments
GetRetrieverAccepts(nargs) == nargs = 2

\* getRetriever: one Document per top-level item of the JSON file, with the
\* orchestrator's metadata update applied
ImageDocuments(path, content_hash) ==
  [i \in 1..Len(MetadataJsonKeys) |->
     [page_content |-> "This is an image with the caption: "
                         \o SidecarValue(path, MetadataJsonKeys[i]),
      metadata |-> [source_file |-> Basename(path),
                    page_num |-> 1,
                    company |-> CompanyName(path),
                    content_type |-> "image",
                    content_hash |-> content_hash,
                    image_content_hash |-> Absent]]]

ImageIds(docs) ==
  [i \in 1..Len(docs) |-> generate_doc_id(docs[i].metadata, i - 1, "image")]

(***************************************************************************)
(* Progress events.  kind names the message template, n the number the     *)
(* template prints (0 when it prints none).                                *)
(*   ErrNoFile        "Error: File does not exist: {path}"                 *)
(*   FailedNotFound   "Failed to process {name} - file not found"          *)
(*   Processing       "Processing document: {path}"                        *)
(*   TextSkip         "{name} already ingested (text) with {n} chunks..."  *)
(*   Extracted        "Extracted {n} text segments from PDF."              *)
(*   AddedText        "Added {n} text chunks from {name} into Qdrant ..."  *)
(*   NoText           "No text extracted from PDF."                        *)
(*   ExtractingImages "Extracting [and hashing ]images from {name}..."     *)
(*   FoundImages      "Found {n} images to check for duplicates."          *)
(*   ImageSkip        "{name} already exists in image store ..."           *)
(*   SavedMeta        "Saved image metadata to {metadata_path}"            *)
(*   AddedImages      "Added {n} image captions from {name} into ..."      *)
(*   NoImages         "No images found in PDF."                            *)
(*   CompletedBothExisted / CompletedTextExisted / CompletedImagesExisted  *)
(*                    "Completed processing for {name} - ..."              *)
(*   CompletedIngestion "Completed ingestion for {name}"                   *)
(*   ErrorWhile       "Error while processing PDF {path}: {e}"             *)
(*   Traceback        "Traceback: {traceback.format_exc()}"                *)
(*   LocalNotFound    "Error: File not found: {path}"   (ingest_local_pdf) *)
(*   LocalProcessing  "Processing local PDF: {file_name}"                  *)
(***************************************************************************)
Ev(kind, n) == [kind |-> kind, n |-> n]

\* the substrings consumers match that a message of the kind contains
MatchableSubstrings(kind) ==
  CASE kind = "AddedText" -> {"Added {N} text chunks"}
    [] kind = "AddedImages" -> {"Added {N} image captions"}
    [] kind = "TextSkip" -> {"already ingested (text)"}
    [] kind = "ImageSkip" -> {"already exists in image store"}
    [] kind \in {"ErrNoFile", "ErrorWhile", "LocalNotFound"} -> {"Error"}
    [] OTHER -> {}

Procs == {"A", "B"}
Entries == {"utility", "utils", "local"}

\* calls: the calls made to the pure functions of the pipeline, each with
\* its arguments and its result (empty while the orchestrators run)
VARIABLES textStore, imageStore, run, started, sidecars, firstIds, calls, batch

vars == <<textStore, imageStore, run, started, sidecars, firstIds, calls, batch>>

IdleRun ==
  [pc |-> "idle", path |-> "", entry |-> "", hash |-> "",
   text_already_exists |-> FALSE, image_already_exists |-> FALSE,
   pre |-> <<>>, ev |-> <<>>, post |-> <<>>, outcome |-> "none",
   tChk |-> "none", tHadF |-> FALSE, tHadN |-> FALSE, tAdd |-> 0, tIds |-> <<>>,
   wroteText |-> FALSE, iChk |-> <<>>, iAdd |-> 0, wroteImages |-> FALSE,
   reads |-> 0, fault |-> FALSE,
   prev |-> [path |-> "", wroteText |-> FALSE, wroteImages |-> FALSE]]

\* a batch caller before its call: no source, no files, no event
IdleBatch == [pc |-> "idle", source |-> "", files |-> <<>>, next |-> 0, ev |-> <<>>]

Init ==
  /\ textStore = {}
  /\ imageStore = {}
  /\ run = [p \in Procs |-> IdleRun]
  /\ started = 0
  /\ sidecars = {}
  /\ firstIds = [path \in Paths |-> <<>>]
  /\ calls = <<>>
  /\ batch = IdleBatch

\* the events the caller of the stream receives, in order
Out(r) == r.pre \o r.ev \o r.post

\* the generator ends; ingest_local_pdf then yields its own closing event
Finish(r, outcome) ==
  [r EXCEPT !.pc = "done", !.outcome = outcome,
            !.post = IF r.entry = "local"
                     THEN <<Ev("CompletedIngestion", 0)>> ELSE <<>>]

\* an exception handler inside the stage instead of around the run: the error
\* is reported and the run goes on where it was
Raise_Continuing(r) ==
  [r EXCEPT !.ev = @ \o <<Ev("ErrorWhile", 0), Ev("Traceback", 0)>>]

\* no except clause around the run: the exception leaves the generator, no
\* event is emitted
Raise_Escaping(r) == Finish(r, "RAISED")

\* except Exception as e: two events, then the generator ends
Raise(r) ==
  Finish([r EXCEPT !.ev = @ \o <<Ev("ErrorWhile", 0), Ev("Traceback", 0)>>],
         "ERROR")

Emit(r, events) == [r EXCEPT !.ev = @ \o events]

\* the environment failed in this run: a store, file or library call raised
Fault(r) == [r EXCEPT !.fault = TRUE]

\* continue at pc, or return from the generator
Goto(r, pc) == IF pc = "return" THEN Finish(r, "RETURN") ELSE [r EXCEPT !.pc = pc]

\* log_stream: every message is written to the log file and yielded unchanged
log_stream(stream) == [i \in 1..Len(stream) |-> stream[i]]

\* async_stream: every item is yielded with a line feed appended
async_stream(gen) == [i \in 1..Len(gen) |-> [line |-> gen[i], end |-> "\n"]]

\* line feeds inside the text of a message: traceback.format_exc() returns
\* the header line, at least one frame line and the exception line, each
\* ended by a line feed; the other messages of the modelled paths hold none
LineBreaks(kind) == IF kind = "Traceback" THEN 3 ELSE 0

\* the text lines a consumer of the response body reads: every item is its
\* message followed by one line feed
RECURSIVE LinesRead(_)
LinesRead(stream) ==
  IF stream = <<>> THEN 0
  ELSE LineBreaks(Head(stream).line.kind) + 1 + LinesRead(Tail(stream))

\* the events of the missing-file branch of process_pdf_and_stream
MissingFileEvents(entry) ==
  IF entry = "utility"
  THEN <<Ev("ErrNoFile", 0), Ev("FailedNotFound", 0)>>
  ELSE <<Ev("ErrNoFile", 0)>>

\* the pc of the image stage that follows the text stage
ImageStage(entry) == IF entry = "utility" THEN "img_extract" ELSE "img_check_u"

\* a text stage that lacks the text_already_exists guard: the run goes on to
\* extract and write the text it has just reported as skipped
TextSkipNext_Unguarded(entry) == "text_add"

\* where the run continues after the text skip event: utility goes on to the
\* image stage (the text block is guarded by text_already_exists), utils
\* returns
TextSkipNext(entry) == IF entry = "utility" THEN ImageStage(entry) ELSE "return"

\* Final completion status of utility/pdf_processor1.py
SummaryEvent(text_already_exists, image_already_exists) ==
  IF text_already_exists /\ image_already_exists
  THEN Ev("CompletedBothExisted", 0)
  ELSE IF text_already_exists THEN Ev("CompletedTextExisted", 0)
  ELSE IF image_already_exists THEN Ev("CompletedImagesExisted", 0)
  ELSE Ev("CompletedIngestion", 0)

(***************************************************************************)
(* A caller starts a run: ingest_local_pdf (entry "local") checks the file *)
(* itself and announces it; process_pdf_and_stream checks the path and     *)
(* yields "Processing document".                                           *)
(***************************************************************************)
Start(p, path, entry) ==
  /\ run[p].pc \in {"idle", "done"}
  /\ started < MaxRuns
  /\ entry = "local" => FileAt(path).dir = "10k_PDFs"
  /\ started' = started + 1
  /\ LET r0 == [IdleRun EXCEPT
                  !.path = path, !.entry = entry,
                  !.prev = [path |-> run[p].path,
                            wroteText |-> run[p].wroteText,
                            wroteImages |-> run[p].wroteImages]]
     IN  run' = [run EXCEPT ![p] =
           IF entry = "local" /\ ~PathExists(path)
           THEN [r0 EXCEPT !.pc = "done", !.outcome = "NOFILE",
                           !.pre = <<Ev("LocalNotFound", 0)>>]
           ELSE LET r1 == IF entry = "local"
                          THEN [r0 EXCEPT !.pre = <<Ev("LocalProcessing", 0)>>]
                          ELSE r0
                IN  IF ~PathExists(path)
                    THEN Finish(Emit(r1, MissingFileEvents(entry)), "NOFILE")
                    ELSE [Emit(r1, <<Ev("Processing", 0)>>) EXCEPT !.pc = "open"]]
  /\ UNCHANGED <<textStore, imageStore, sidecars, firstIds, calls>>

(***************************************************************************)
(* fitz.open, init_vector_stores, calculate_content_hash                   *)
(***************************************************************************)
Open(p) ==
  /\ run[p].pc = "open"
  /\ \E raises \in BOOLEAN, hash_raises \in BOOLEAN :
       LET r == run[p]
       IN  run' = [run EXCEPT ![p] =
             IF raises THEN Raise(Fault(r))
             ELSE [r EXCEPT !.pc = "text_check",
                            !.fault = hash_raises,
                            !.hash = calculate_content_hash(r.path, hash_raises)]]
  /\ UNCHANGED <<textStore, imageStore, started, sidecars, firstIds, calls, batch>>

(***************************************************************************)
(* Text ingestion: the duplicate check, then page extraction and the split *)
(***************************************************************************)
TextCheck(p) ==
  /\ run[p].pc = "text_check"
  /\ \E store_fails \in BOOLEAN, split_raises \in BOOLEAN :
       LET r    == run[p]
           res  == check_document_exists(textStore, Basename(r.path), "text",
                                         r.hash, NoHashes, store_fails)
           docs == PageDocuments(r.path, r.hash)
           r1   == [r EXCEPT
                      !.tChk = IF CheckRaises("text", NoHashes, store_fails)
                               THEN "raised"
                               ELSE IF res.exists THEN "hit" ELSE "miss",
                      !.tHadF = Matching(textStore, "text", "content_hash",
                                         r.hash) # {},
                      !.tHadN = Matching(textStore, "text", "source_file",
                                         Basename(r.path)) # {},
                      !.reads = @ + 1,
                      !.fault = @ \/ store_fails,
                      !.text_already_exists = res.exists]
       IN  run' = [run EXCEPT ![p] =
             IF res.exists
             THEN Goto(Emit(r1, <<Ev("TextSkip", Cardinality(res.points))>>),
                       TextSkipNext(r.entry))
             ELSE IF docs = <<>>
             THEN [Emit(r1, <<Ev("NoText", 0)>>) EXCEPT !.pc = ImageStage(r.entry)]
             ELSE LET r2 == Emit(r1, <<Ev("Extracted", Len(docs))>>)
                  IN  IF split_raises THEN Raise(Fault(r2))
                      ELSE [r2 EXCEPT !.pc = "text_add"]]
  /\ UNCHANGED <<textStore, imageStore, started, sidecars, firstIds, calls, batch>>

\* text_vectorstore.add_documents(text_chunks, ids=ids), the verification
\* scroll, and the "Added" event
TextAdd(p) ==
  /\ run[p].pc = "text_add"
  /\ \E add_raises \in BOOLEAN, verify_raises \in BOOLEAN :
       LET r      == run[p]
           chunks == split_documents(PageDocuments(r.path, r.hash))
           ids    == TextIds(chunks)
           r1     == [r EXCEPT !.tAdd = @ + 1, !.tIds = ids]
       IN  IF add_raises
           THEN /\ run' = [run EXCEPT ![p] = Raise(Fault(r1))]
                /\ UNCHANGED <<textStore, firstIds>>
           ELSE /\ textStore' = add_documents(textStore, chunks, ids)
                /\ firstIds' = IF firstIds[r.path] = <<>> /\ ~verify_raises
                               THEN [firstIds EXCEPT ![r.path] = ids]
                               ELSE firstIds
                /\ LET r2 == [r1 EXCEPT !.wroteText = TRUE, !.reads = @ + 1]
                   IN  run' = [run EXCEPT ![p] =
                         IF verify_raises THEN Raise(Fault(r2))
                         ELSE [Emit(r2, <<Ev("AddedText", Len(chunks))>>)
                                 EXCEPT !.pc = ImageStage(r.entry)]]
  /\ UNCHANGED <<imageStore, started, sidecars, calls, batch>>

(***************************************************************************)
(* Image ingestion of utility/pdf_processor1.py                            *)
(***************************************************************************)
\* the run ends with the final completion status
Complete(r) ==
  Finish(Emit(r, <<SummaryEvent(r.text_already_exists, r.image_already_exists)>>),
         "DONE")

\* ImageDescription(path), get_image_information() and the unpacking of its
\* result into image_info, image_hashes
ImgExtract(p) ==
  /\ run[p].pc = "img_extract"
  /\ \E raises \in BOOLEAN :
       LET r  == Emit(run[p], <<Ev("ExtractingImages", 0)>>)
           u  == UnpackPair(get_image_information(r.path))
       IN  run' = [run EXCEPT ![p] =
             IF raises THEN Raise(Fault(r))
             ELSE IF ~u.ok THEN Raise(r)
             ELSE IF u.image_hashes # ""
             THEN [Emit(r, <<Ev("FoundImages", Len(u.image_hashes))>>)
                     EXCEPT !.pc = "img_check1"]
             ELSE [r EXCEPT !.pc = "img_write"]]
  /\ UNCHANGED <<textStore, imageStore, started, sidecars, firstIds, calls, batch>>

\* what one of the three image duplicate checks leaves behind
AfterImageCheck(r, res, raised, store_fails, next_pc) ==
  LET r1 == [r EXCEPT !.iChk = Append(@, IF raised THEN "raised"
                                         ELSE IF res.exists THEN "hit"
                                         ELSE "miss"),
                      !.fault = @ \/ store_fails,
                      !.reads = @ + 1]
  IN  IF res.exists
      THEN Complete(Emit([r1 EXCEPT !.image_already_exists = TRUE],
                         <<Ev("ImageSkip", 0)>>))
      ELSE [r1 EXCEPT !.pc = next_pc]

\* check by the individual image hashes
ImgCheck1(p) ==
  /\ run[p].pc = "img_check1"
  /\ \E store_fails \in BOOLEAN :
       LET r  == run[p]
           ih == StrObject(UnpackPair(get_image_information(r.path)).image_hashes)
       IN  run' = [run EXCEPT ![p] =
             AfterImageCheck(r,
               check_document_exists(imageStore, Basename(r.path), "image",
                                     r.hash, ih, store_fails),
               CheckRaises("image", ih, store_fails), store_fails, "img_check2")]
  /\ UNCHANGED <<textStore, imageStore, started, sidecars, firstIds, calls, batch>>

\* check by the PDF content hash
ImgCheck2(p) ==
  /\ run[p].pc = "img_check2"
  /\ \E store_fails \in BOOLEAN :
       LET r == run[p]
       IN  run' = [run EXCEPT ![p] =
             AfterImageCheck(r,
               check_document_exists(imageStore, Basename(r.path), "image",
                                     r.hash, NoHashes, store_fails),
               CheckRaises("image", NoHashes, store_fails), store_fails, "img_check3")]
  /\ UNCHANGED <<textStore, imageStore, started, sidecars, firstIds, calls, batch>>

\* check by the source file name only
ImgCheck3(p) ==
  /\ run[p].pc = "img_check3"
  /\ \E store_fails \in BOOLEAN :
       LET r == run[p]
       IN  run' = [run EXCEPT ![p] =
             AfterImageCheck(r,
               check_document_exists(imageStore, Basename(r.path), "image",
                                     "", NoHashes, store_fails),
               CheckRaises("image", NoHashes, store_fails), store_fails, "img_write")]
  /\ UNCHANGED <<textStore, imageStore, started, sidecars, firstIds, calls, batch>>

SidecarName(path) == "metadata_" \o Basename(path) \o ".json"

\* open(metadata_path, "w") and json.dump: the file of that name is replaced;
\* metadata lists the image paths the "metadata" entry of the file holds
WriteSidecar(files, name, metadata) ==
  {f \in files : f.name # name} \cup {[name |-> name, metadata |-> metadata]}

\* if image_info: write the JSON file, getRetriever(metadata_path,
\* company_name, image_hashes), add_documents; else "No images found"
ImgWrite(p) ==
  /\ run[p].pc = "img_write"
  /\ \E dump_raises \in BOOLEAN, add_raises \in BOOLEAN :
       LET r    == run[p]
           u    == UnpackPair(get_image_information(r.path))
           docs == ImageDocuments(r.path, r.hash)
           ids  == ImageIds(docs)
       IN  IF u.image_info = ""
           THEN /\ run' = [run EXCEPT ![p] =
                             Complete(Emit(r, <<Ev("NoImages", 0)>>))]
                /\ UNCHANGED <<imageStore, sidecars>>
           ELSE IF dump_raises
           THEN /\ run' = [run EXCEPT ![p] = Raise(Fault(r))]
                /\ UNCHANGED <<imageStore, sidecars>>
           ELSE /\ sidecars' = WriteSidecar(sidecars, SidecarName(r.path),
                                          <<u.image_info>>)
                /\ LET r1 == Emit(r, <<Ev("SavedMeta", 0)>>)
                   IN  IF ~GetRetrieverAccepts(3)
                       THEN /\ run' = [run EXCEPT ![p] = Raise(r1)]
                            /\ UNCHANGED imageStore
                       ELSE IF add_raises
                       THEN /\ run' = [run EXCEPT ![p] =
                                         Raise(Fault([r1 EXCEPT !.iAdd = @ + 1]))]
                            /\ UNCHANGED imageStore
                       ELSE /\ imageStore' = add_documents(imageStore, docs, ids)
                            /\ run' = [run EXCEPT ![p] =
                                 Complete(Emit([r1 EXCEPT !.iAdd = @ + 1,
                                                          !.wroteImages = TRUE],
                                               <<Ev("AddedImages", Len(docs))>>))]
  /\ UNCHANGED <<textStore, started, firstIds, calls, batch>>

(***************************************************************************)
(* Image ingestion of utils/pdf_processor1.py                              *)
(***************************************************************************)
\* check_document_exists(image_vectorstore, company_name, "image"), then the
\* extraction and the JSON file
ImgCheckU(p) ==
  /\ run[p].pc = "img_check_u"
  /\ \E store_fails \in BOOLEAN, raises \in BOOLEAN :
       LET r    == run[p]
           res  == check_document_exists(imageStore, CompanyName(r.path),
                                         "image", "", NoHashes, store_fails)
           r1   == [r EXCEPT !.iChk = Append(@, IF store_fails THEN "raised"
                                                ELSE IF res.exists THEN "hit"
                                                ELSE "miss"),
                             !.reads = @ + 1,
                             !.fault = @ \/ store_fails,
                             !.image_already_exists = res.exists]
           r2   == Emit(r1, <<Ev("ExtractingImages", 0)>>)
           info == get_image_information(r.path)
       IN  IF res.exists
           THEN /\ run' = [run EXCEPT ![p] =
                             Finish(Emit(r1, <<Ev("ImageSkip", 0)>>), "RETURN")]
                /\ UNCHANGED sidecars
           ELSE IF raises
           THEN /\ run' = [run EXCEPT ![p] = Raise(Fault(r2))]
                /\ UNCHANGED sidecars
           ELSE IF info = <<>>
           THEN /\ run' = [run EXCEPT ![p] =
                             Finish(Emit(r2, <<Ev("NoImages", 0),
                                               Ev("CompletedIngestion", 0)>>),
                                    "DONE")]
                /\ UNCHANGED sidecars
           ELSE /\ sidecars' = WriteSidecar(sidecars, SidecarName(r.path), info)
                /\ run' = [run EXCEPT ![p] =
                             IF GetRetrieverAccepts(2)
                             THEN [Emit(r2, <<Ev("SavedMeta", 0)>>)
                                     EXCEPT !.pc = "img_add_u"]
                             ELSE Raise(Emit(r2, <<Ev("SavedMeta", 0)>>))]
  /\ UNCHANGED <<textStore, imageStore, started, firstIds, calls, batch>>

\* image_vectorstore.add_documents(image_documents, ids=img_ids)
ImgAddU(p) ==
  /\ run[p].pc = "img_add_u"
  /\ \E add_raises \in BOOLEAN :
       LET r    == [run[p] EXCEPT !.iAdd = @ + 1]
           docs == ImageDocuments(r.path, Absent)
           ids  == ImageIds(docs)
       IN  IF add_raises
           THEN /\ run' = [run EXCEPT ![p] = Raise(Fault(r))]
                /\ UNCHANGED imageStore
           ELSE /\ imageStore' = add_documents(imageStore, docs, ids)
                /\ run' = [run EXCEPT ![p] =
                     Finish(Emit([r EXCEPT !.wroteImages = TRUE],
                                 <<Ev("AddedImages", Len(docs)),
                                   Ev("CompletedIngestion", 0)>>), "DONE")]
  /\ UNCHANGED <<textStore, started, sidecars, firstIds, calls, batch>>

(***************************************************************************)
(* One caller at a time: every run is started after the previous ended.    *)
(***************************************************************************)
Step(p) ==
  \/ Open(p) \/ TextCheck(p) \/ TextAdd(p)
  \/ ImgExtract(p) \/ ImgCheck1(p) \/ ImgCheck2(p) \/ ImgCheck3(p) \/ ImgWrite(p)
  \/ ImgCheckU(p) \/ ImgAddU(p)

Next ==
  \/ \E path \in Paths, entry \in Entries : Start("A", path, entry) /\ UNCHANGED batch
  \/ Step("A")

Spec == Init /\ [][Next]_vars

(***************************************************************************)
(* Two callers at a time.  The /ingest endpoint wraps each run in           *)
(* async_stream, which hands control to the event loop after every event,  *)
(* so the runs of two requests interleave between their events; each       *)
(* caller makes one run.                                                   *)
(***************************************************************************)
\* callers serialized by a lock around the whole run: a run starts only
\* while no other run is in progress
StartConcurrent_Serialized(p, path, entry) ==
  /\ run[p].pc = "idle"
  /\ \A q \in Procs \ {p} : run[q].pc \in {"idle", "done"}
  /\ Start(p, path, entry)
  /\ UNCHANGED batch

StartConcurrent(p, path, entry) ==
  /\ run[p].pc = "idle"
  /\ Start(p, path, entry)
  /\ UNCHANGED batch

NextConcurrent ==
  \E p \in Procs :
    \/ \E path \in Paths, entry \in Entries : StartConcurrent(p, path, entry)
    \/ Step(p)

SpecConcurrent == Init /\ [][NextConcurrent]_vars

(***************************************************************************)
(* The batch callers ingest_confluence, ingest_jira, ingest_gdrive_folder: *)
(* download the PDFs of a source, then for each file yield "Downloaded"    *)
(* and the events of process_pdf_and_stream (src/utils), then yield the    *)
(* completion event.  batch.ev holds the events of the stream up to the    *)
(* run in progress.  Events:                                               *)
(*   NoKey          "Error: No space_key provided for Confluence ..."      *)
(*   Downloading    "Downloading PDFs from Confluence space {key}..."      *)
(*   NoPdfs         "No PDFs found in the specified Confluence space."     *)
(*   Downloaded     "Downloaded: {pdf_path}"                               *)
(*   BatchCompleted "Completed Confluence ingestion."                      *)
(***************************************************************************)
Sources == {"confluence", "jira", "gdrive"}
DownloadedFiles == {"10k_PDFs/acme.pdf", "10k_PDFs/memo.pdf", "10k_PDFs/gone.pdf"}

\* an exception raised inside process_pdf_and_stream and not caught there
\* passes through "yield from" and ends the caller's generator
Propagates(r) == r.outcome = "RAISED"

\* the checks before the loop, and the download
BatchStart(source, key, download_raises, pdf_files) ==
  /\ batch.pc = "idle"
  /\ started = 0
  /\ batch' =
       IF key = ""
       THEN [IdleBatch EXCEPT !.pc = "done", !.source = source,
                              !.ev = <<Ev("NoKey", 0)>>]
       ELSE IF download_raises
       THEN [IdleBatch EXCEPT !.pc = "aborted", !.source = source,
                              !.ev = <<Ev("Downloading", 0)>>]
       ELSE IF pdf_files = <<>>
       THEN [IdleBatch EXCEPT !.pc = "done", !.source = source,
                              !.ev = <<Ev("Downloading", 0), Ev("NoPdfs", 0)>>]
       ELSE [pc |-> "loop", source |-> source, files |-> pdf_files,
             next |-> 1, ev |-> <<Ev("Downloading", 0)>>]
  /\ UNCHANGED <<textStore, imageStore, run, started, sidecars, firstIds, calls>>

\* one turn of "for pdf_path in pdf_files": the events of the document
\* before are in the stream, "Downloaded" is yielded and the next run starts
BatchNextDocument ==
  /\ batch.pc = "loop"
  /\ run["A"].pc \in {"idle", "done"}
  /\ batch.next <= Len(batch.files)
  /\ IF Propagates(run["A"])
     THEN /\ batch' = [batch EXCEPT !.pc = "aborted", !.ev = @ \o Out(run["A"])]
          /\ UNCHANGED <<textStore, imageStore, run, started, sidecars,
                         firstIds, calls>>
     ELSE /\ batch' = [batch EXCEPT
                         !.next = @ + 1,
                         !.ev = @ \o Out(run["A"]) \o <<Ev("Downloaded", 0)>>]
          /\ Start("A", batch.files[batch.next], "utils")

\* the loop is over: the completion event is yielded
BatchComplete ==
  /\ batch.pc = "loop"
  /\ run["A"].pc = "done"
  /\ batch.next > Len(batch.files)
  /\ batch' =
       IF Propagates(run["A"])
       THEN [batch EXCEPT !.pc = "aborted", !.ev = @ \o Out(run["A"])]
       ELSE [batch EXCEPT !.pc = "done",
                          !.ev = @ \o Out(run["A"]) \o <<Ev("BatchCompleted", 0)>>]
  /\ UNCHANGED <<textStore, imageStore, run, started, sidecars, firstIds, calls>>

NextBatch ==
  \/ \E source \in Sources, key \in {"", "KEY"}, download_raises \in BOOLEAN :
       \E pdf_files \in UNION {[1..n -> DownloadedFiles] : n \in 0..MaxRuns} :
         BatchStart(source, key, download_raises, pdf_files)
  \/ BatchNextDocument
  \/ batch.pc = "loop" /\ Step("A")
  \/ BatchComplete

SpecBatch == Init /\ [][NextBatch]_vars

(***************************************************************************)
(* generate_doc_id called on its own: the arguments are drawn from a       *)
(* fingerprint that is empty (the hasher's fallback), a digest, or a       *)
(* string that itself holds the separators of the id format, and from page *)
(* numbers and indexes whose decimal forms are prefixes of one another.    *)
(***************************************************************************)
Fingerprints == {"", Sha256Hex("a"), Sha256Hex("a") \o "_page1", Sha256Hex("a") \o "_1"}
PageNums == {1, 11, 111}
Indexes == {0, 1, 11}

pipeline == <<textStore, imageStore, run, started, sidecars, firstIds, batch>>

CallGenerateDocId(content_hash, page_num, index) ==
  /\ Len(calls) < MaxCalls
  /\ calls' = Append(calls,
       [fn |-> "generate_doc_id",
        args |-> <<content_hash, page_num, index>>,
        result |-> generate_doc_id([content_hash |-> content_hash,
                                     page_num |-> page_num], index, "text")])
  /\ UNCHANGED pipeline

NextIds ==
  \E content_hash \in Fingerprints, page_num \in PageNums, index \in Indexes :
    CallGenerateDocId(content_hash, page_num, index)

SpecIds == Init /\ [][NextIds]_vars

(***************************************************************************)
(* The image duplicate detection called on its own, on a store that holds  *)
(* any of five units: image units with and without an image fingerprint    *)
(* and a document fingerprint, and a text unit.                            *)
(***************************************************************************)
Unit(id, content_type, source_file, content_hash, image_content_hash) ==
  Point(id, [content_type |-> content_type, source_file |-> source_file,
             company |-> "NA", content_hash |-> content_hash,
             image_content_hash |-> image_content_hash, page_num |-> 1],
        "This is an image with the caption: " \o id)

StoredUnits ==
  {Unit("u1", "image", "report.pdf", Sha256Hex("a"), Sha256Hex("chart")),
   Unit("u2", "image", "report.pdf", Sha256Hex("a"), Absent),
   Unit("u3", "image", "report_v2.pdf", Sha256Hex("b"), Sha256Hex("logo")),
   Unit("u4", "image", "legacy.pdf", Absent, Absent),
   Unit("u5", "text", "report.pdf", Sha256Hex("c"), Absent)}

SourceNames == {"report.pdf", "legacy.pdf", "new.pdf"}
ContentHashes == {"", Sha256Hex("a"), Sha256Hex("c")}
ImageHashArgs ==
  {NoHashes, HashDict(<<>>), StrObject("report/financial_img_7.png"),
   HashDict(<<Sha256Hex("chart")>>), HashDict(<<Sha256Hex("scan")>>),
   HashDict(<<Sha256Hex("scan"), Sha256Hex("logo")>>)}

CallImageDuplicateCheck(store, name, content_hash, image_hashes) ==
  /\ calls = <<>>
  /\ calls' = <<[fn |-> "image_duplicate_check",
                 args |-> [store |-> store, name |-> name,
                           content_hash |-> content_hash,
                           image_hashes |-> image_hashes],
                 result |-> ImageDuplicateCheck(store, name, content_hash,
                                                image_hashes)]>>
  /\ UNCHANGED pipeline

NextDetect ==
  \E store \in SUBSET StoredUnits, name \in SourceNames :
    \E content_hash \in ContentHashes, image_hashes \in ImageHashArgs :
      CallImageDuplicateCheck(store, name, content_hash, image_hashes)

SpecDetect == Init /\ [][NextDetect]_vars

(***************************************************************************)
(* get_comprehensive_image_context as a function of the page's text        *)
(* blocks.  A text is a sequence of runs [n, len]: n words of len           *)
(* characters each, all words separated by single spaces; a block is       *)
(* [text, distance], distance the vertical distance of the block's centre  *)
(* from the image's centre.                                                *)
(***************************************************************************)
MaxBlocks == 2

MinBlockChars == 3
MaxDistance == 200
NearestBlocks == 4
MinPartChars == 10
MaxContextChars == 800
MaxContextWords == 120

\* the number of words of a text: len(text.split())
RECURSIVE WordCount(_)
WordCount(text) == IF text = <<>> THEN 0 ELSE Head(text).n + WordCount(Tail(text))

RECURSIVE LetterCount(_)
LetterCount(text) ==
  IF text = <<>> THEN 0
  ELSE Head(text).n * Head(text).len + LetterCount(Tail(text))

\* len(text) of a text of single-spaced words
CharLen(text) ==
  IF text = <<>> THEN 0 ELSE LetterCount(text) + WordCount(text) - 1

\* words[:k] of a text
RECURSIVE FirstWords(_, _)
FirstWords(text, k) ==
  IF text = <<>> \/ k = 0 THEN <<>>
  ELSE IF Head(text).n >= k THEN <<[n |-> k, len |-> Head(text).len]>>
  ELSE <<Head(text)>> \o FirstWords(Tail(text), k - Head(text).n)

\* list.sort(key=distance): stable, ascending
RECURSIVE SortByDistance(_)
SortByDistance(items) ==
  IF items = <<>> THEN <<>>
  ELSE LET rest == SortByDistance(Tail(items))
           before == SelectSeq(rest, LAMBDA x : x.distance < Head(items).distance)
           after == SelectSeq(rest, LAMBDA x : x.distance >= Head(items).distance)
       IN  before \o <<Head(items)>> \o after

\* the loop over relevant_text[:4]: a text longer than 10 characters that is
\* not yet among the parts is appended
RECURSIVE ContextParts(_, _)
ContextParts(items, parts) ==
  IF items = <<>> THEN parts
  ELSE ContextParts(Tail(items),
         IF CharLen(Head(items).text) > MinPartChars
              /\ Head(items).text \notin SeqToSet(parts)
         THEN Append(parts, Head(items).text) ELSE parts)

\* ". ".join(parts): the full stop lengthens the last word of every part but
\* the last by one character
\* the text with a full stop appended: its last word is one character longer
WithFullStop(text) ==
  LET last == text[Len(text)]
  IN  SubSeq(text, 1, Len(text) - 1)
        \o (IF last.n > 1 THEN <<[n |-> last.n - 1, len |-> last.len]>> ELSE <<>>)
        \o <<[n |-> 1, len |-> last.len + 1]>>

\* ". ".join(parts)
RECURSIVE JoinParts(_)
JoinParts(parts) ==
  IF parts = <<>> THEN <<>>
  ELSE IF Len(parts) = 1 THEN parts[1]
  ELSE WithFullStop(parts[1]) \o JoinParts(Tail(parts))

\* " ".join(final_context.split()[:120]) when the context is longer than
\* 800 characters
LimitContext(final_context) ==
  IF CharLen(final_context) > MaxContextChars
  THEN FirstWords(final_context, MaxContextWords)
  ELSE final_context

get_comprehensive_image_context(has_rects, raised, text_blocks) ==
  IF raised \/ ~has_rects THEN <<>>
  ELSE LET relevant_text ==
             SelectSeq(text_blocks,
                       LAMBDA b : /\ CharLen(b.text) >= MinBlockChars
                                  /\ b.distance <= MaxDistance)
           nearest == SubSeq(SortByDistance(relevant_text), 1,
                             IF Len(relevant_text) < NearestBlocks
                             THEN Len(relevant_text) ELSE NearestBlocks)
       IN  LimitContext(JoinParts(ContextParts(nearest, <<>>)))

WordsOf(n, len) == <<[n |-> n, len |-> len]>>

\* a two-letter label, a short caption, a paragraph, a long paragraph of
\* short words, a table of long tokens
BlockTexts ==
  {WordsOf(1, 2), WordsOf(2, 4), WordsOf(20, 5), WordsOf(130, 5),
   WordsOf(100, 9)}
Distances == {50, 150, 300}
TextBlocks == [text : BlockTexts, distance : Distances]

CallGetContext(has_rects, raised, text_blocks) ==
  /\ calls = <<>>
  /\ calls' = <<[fn |-> "get_comprehensive_image_context",
                 args |-> [has_rects |-> has_rects, raised |-> raised,
                           text_blocks |-> text_blocks],
                 result |-> get_comprehensive_image_context(has_rects, raised,
                                                            text_blocks)]>>
  /\ UNCHANGED pipeline

NextContext ==
  \E has_rects \in BOOLEAN, raised \in BOOLEAN :
    \E text_blocks \in UNION {[1..n -> TextBlocks] : n \in 0..MaxBlocks} :
      CallGetContext(has_rects, raised, text_blocks)

SpecContext == Init /\ [][NextContext]_vars

(***************************************************************************)
(* get_image_description as a function of the extracted images and of what *)
(* goes wrong while each one is analysed.                                  *)
(***************************************************************************)
\* what fails in analyze_image_with_context: nothing, the image file is
\* gone, encode_image returns None, the describer call raises
Failures == {"none", "missing", "encode", "describer"}

\* analyze_image_with_context with its failure paths: each returns a string
\* that starts with "Error"
AnalyzeImage(img, failure) ==
  CASE failure = "missing" -> "Error: Image file not found"
    [] failure = "encode" -> "Error: Failed to encode image"
    [] failure = "describer" -> "Error analyzing image: <exception>"
    [] OTHER -> analyze_image_with_context(img)

\* the loop of get_image_description over the first k images: a result that
\* is None or holds INVALID_IMAGE is skipped, any other is stored and counted
RECURSIVE AnalysesOf(_, _, _)
AnalysesOf(path, failures, k) ==
  IF k = 0 THEN <<>>
  ELSE LET img == FileAt(path).images[k]
           result == AnalyzeImage(img, failures[k])
           before == AnalysesOf(path, failures, k - 1)
       IN  IF result = NoneValue \/ result = "INVALID_IMAGE" THEN before
           ELSE Append(before, [image_path |-> ImagePath(path, img),
                                caption |-> result])

\* the analysis_data written to <pdf>_analysis.json
get_image_description(path, failures) ==
  LET image_analyses == AnalysesOf(path, failures, Len(FileAt(path).images))
  IN  [output_file |-> FileAt(path).dir \o "/" \o FileAt(path).stem \o "_analysis.json",
       total_images_found |-> Len(FileAt(path).images),
       successfully_analyzed |-> Len(image_analyses),
       image_analyses |-> image_analyses]

CallGetImageDescription(path, failures) ==
  /\ Len(calls) < MaxCalls
  /\ calls' = Append(calls, [fn |-> "get_image_description",
                             args |-> [path |-> path, failures |-> failures],
                             result |-> get_image_description(path, failures)])
  /\ UNCHANGED pipeline

NextDescribe ==
  \E path \in {q \in Paths : PathExists(q) /\ FileAt(q).images # <<>>} :
    \E failures \in [1..Len(FileAt(path).images) -> Failures] :
      CallGetImageDescription(path, failures)

SpecDescribe == Init /\ [][NextDescribe]_vars

(***************************************************************************)
(* Properties                                                              *)
(***************************************************************************)
Kinds(events) == {events[i].kind : i \in 1..Len(events)}
Positions(events, kinds) == {i \in 1..Len(events) : events[i].kind \in kinds}

TextDecisionKinds == {"TextSkip", "AddedText", "NoText"}
ImageDecisionKinds == {"ImageSkip", "AddedImages", "NoImages"}
ImageKinds == ImageDecisionKinds \cup {"ExtractingImages", "FoundImages", "SavedMeta"}
SummaryKinds == {"CompletedBothExisted", "CompletedTextExisted",
                 "CompletedImagesExisted", "CompletedIngestion"}
\* the messages that contain the substring "Error" (the traceback text is
\* counted among them: it names the exception raised)
ErrorKinds == {"ErrNoFile", "ErrorWhile", "Traceback", "LocalNotFound"}

\* C1: when the text store held a unit with the run's document fingerprint
\* at the time of the text duplicate check, the run has emitted the text skip
\* event and has made no add_documents call on the text store.
C1_DedupShortCircuit ==
  \A p \in Procs :
    (run[p].tChk # "none" /\ run[p].hash # "" /\ run[p].tHadF)
      => /\ "TextSkip" \in Kinds(run[p].ev)
         /\ run[p].tAdd = 0

\* C2: a finished run, undisturbed by the environment, on a document with
\* images whose text check matched while the image store holds nothing under
\* its name, has emitted the text skip event and an "Added N image captions"
\* event.
C2_IndependentDomains ==
  \A p \in Procs :
    (/\ run[p].pc = "done" /\ ~run[p].fault
     /\ run[p].tChk = "hit"
     /\ FileAt(run[p].path).images # <<>>
     /\ ~run[p].image_already_exists
     /\ ~run[p].wroteImages
     /\ Matching(imageStore, "image", "source_file", Basename(run[p].path)) = {})
      => /\ "TextSkip" \in Kinds(run[p].ev)
         /\ "AddedImages" \in Kinds(run[p].ev)

\* C3: a finished, undisturbed run that directly follows a run on the same
\* file which wrote both its text chunks and its image captions has emitted
\* both skip events and made no add_documents call.
C3_RerunIsNoOp ==
  \A p \in Procs :
    (/\ run[p].pc = "done" /\ ~run[p].fault
     /\ run[p].prev.path = run[p].path
     /\ run[p].prev.wroteText /\ run[p].prev.wroteImages)
      => /\ "TextSkip" \in Kinds(run[p].ev)
         /\ "ImageSkip" \in Kinds(run[p].ev)
         /\ run[p].tAdd = 0 /\ run[p].iAdd = 0

\* C4: every run that reaches the text write after a duplicate check that
\* found nothing passes the id list the first successful write of that file
\* passed, ids are unique in the text store, and (outside a run whose
\* duplicate check failed) the store holds no more text units under the
\* file's name than that first write stored.
C4_TextRetryIdempotent ==
  /\ \A p \in Procs :
       (run[p].tAdd > 0 /\ run[p].tChk = "miss" /\ firstIds[run[p].path] # <<>>)
         => run[p].tIds = firstIds[run[p].path]
  /\ \A q1, q2 \in textStore : q1.id = q2.id => q1 = q2
  /\ \A path \in Paths :
       (firstIds[path] # <<>> /\ \A p \in Procs : run[p].tChk # "raised") =>
         Cardinality({q \in textStore :
                        /\ q.source_file = Basename(path)
                        /\ q.company = CompanyName(path)})
           <= Len(firstIds[path])

\* C5: a run whose duplicate check failed does not enter the write path of
\* that domain.
C5_FailedCheckNotNegative ==
  \A p \in Procs :
    /\ run[p].tChk = "raised" => (run[p].pc # "text_add" /\ run[p].tAdd = 0)
    /\ (\E i \in 1..Len(run[p].iChk) : run[p].iChk[i] = "raised")
         => (run[p].pc \notin {"img_write", "img_add_u"} /\ run[p].iAdd = 0)

\* C6: the last event the caller of a failed run receives is an error event.
C6_LastEventIsError ==
  \A p \in Procs :
    (run[p].pc = "done" /\ run[p].outcome \in {"NOFILE", "ERROR"})
      => /\ Out(run[p]) # <<>>
         /\ Out(run[p])[Len(Out(run[p]))].kind \in ErrorKinds

\* C7: a run on a missing path emits exactly one event, an error naming the
\* missing file, and neither reads nor writes a store.
C7_MissingFileOneEvent ==
  \A p \in Procs :
    (run[p].pc = "done" /\ run[p].outcome = "NOFILE")
      => /\ Len(Out(run[p])) = 1
         /\ Out(run[p])[1].kind \in {"ErrNoFile", "LocalNotFound"}
         /\ run[p].reads = 0 /\ run[p].tAdd = 0 /\ run[p].iAdd = 0

\* C8: a finished run that did not enter ERROR ends with a summary event, and
\* it emitted exactly one.
C8_SummaryAlwaysLast ==
  \A p \in Procs :
    (run[p].pc = "done" /\ run[p].outcome \notin {"NOFILE", "ERROR"})
      => /\ run[p].ev # <<>>
         /\ run[p].ev[Len(run[p].ev)].kind \in SummaryKinds
         /\ Cardinality(Positions(run[p].ev, SummaryKinds)) = 1

\* C9: the summary of an undisturbed run says "text processed" only when
\* text units were written in this run, "images processed" only when image units were, and "already
\* existed" only for a domain whose duplicate check matched.
C9_SummaryTruthful ==
  \A p \in Procs :
    LET k == Kinds(run[p].ev)
        imageHit == \E i \in 1..Len(run[p].iChk) : run[p].iChk[i] = "hit"
    IN  run[p].fault \/
        /\ "CompletedImagesExisted" \in k => (run[p].wroteText /\ imageHit)
        /\ "CompletedTextExisted" \in k
             => (run[p].wroteImages /\ run[p].tChk = "hit")
        /\ "CompletedBothExisted" \in k => (run[p].tChk = "hit" /\ imageHit)

\* C10: the events of a run are in state-machine order and reach the caller
\* in that order: "Processing document" is first and occurs once; a text
\* decision event precedes every image event; an image decision event
\* precedes the summary; "Added" of a domain appears only after that domain's
\* duplicate check returned and its write returned; no domain has both its
\* skip and its "Added" event.
C10_EventOrder ==
  \A p \in Procs :
    LET r == run[p]
        e == r.ev
        k == Kinds(e)
        d == async_stream(log_stream(Out(r)))
    IN  /\ (e # <<>> /\ r.outcome # "NOFILE")
             => Positions(e, {"Processing"}) = {1}
        /\ \A i \in Positions(e, ImageKinds) :
             \E j \in Positions(e, TextDecisionKinds) : j < i
        /\ \A i \in Positions(e, SummaryKinds) :
             \E j \in Positions(e, ImageDecisionKinds) : j < i
        /\ "AddedText" \in k => (r.tChk # "none" /\ r.wroteText)
        /\ "AddedImages" \in k => (r.iChk # <<>> /\ r.wroteImages)
        /\ ~({"TextSkip", "AddedText"} \subseteq k)
        /\ ~({"ImageSkip", "AddedImages"} \subseteq k)
        /\ Cardinality(Positions(e, TextDecisionKinds)) <= 1
        /\ Len(d) = Len(Out(r))
        /\ \A i \in 1..Len(d) : d[i].line = Out(r)[i]

\* a run that wrote text and images and ended with its summary
C10_Witness ==
  \E p \in Procs :
    /\ run[p].pc = "done"
    /\ {"Processing", "AddedText", "AddedImages", "CompletedIngestion"}
         \subseteq Kinds(run[p].ev)

\* C11: every event reaches the consumer as exactly one text line: no event
\* of a run holds a line feed, and the consumer of async_stream reads as many
\* lines as the run emitted events.
C11_OneLineOneEvent ==
  \A p \in Procs :
    LET out == Out(run[p])
    IN  /\ \A i \in 1..Len(out) : LineBreaks(out[i].kind) = 0
        /\ LinesRead(async_stream(log_stream(out))) = Len(out)

\* the points the text write of run r stored
WrittenText(r) ==
  LET chunks == split_documents(PageDocuments(r.path, r.hash))
  IN  {Point(r.tIds[i], chunks[i].metadata, chunks[i].page_content) :
         i \in 1..Len(r.tIds)}

\* C12: once a run whose text write completed ("Added N text chunks" was
\* emitted) reports an exception, the run is over: the two error events are
\* its last, it made one text write and at most the one image write that
\* raised, it emitted no "Added N image captions", and every text unit it
\* wrote is in the text store as written.
C12_ErrorHaltsNoRollback ==
  \A p \in Procs :
    LET r == run[p]
    IN  ({"AddedText", "ErrorWhile"} \subseteq Kinds(r.ev))
          => /\ r.pc = "done" /\ r.outcome = "ERROR"
             /\ Positions(r.ev, {"ErrorWhile"}) = {Len(r.ev) - 1}
             /\ Positions(r.ev, {"Traceback"}) = {Len(r.ev)}
             /\ r.tAdd = 1 /\ r.iAdd <= 1 /\ ~r.wroteImages
             /\ "AddedImages" \notin Kinds(r.ev)
             /\ WrittenText(r) # {}
             /\ WrittenText(r) \subseteq textStore

\* a run that wrote its text, reached the image stage and failed there
C12_Witness ==
  \E p \in Procs :
    /\ run[p].pc = "done" /\ run[p].outcome = "ERROR"
    /\ {"AddedText", "ExtractingImages", "ErrorWhile"} \subseteq Kinds(run[p].ev)
    /\ WrittenText(run[p]) # {}
    /\ WrittenText(run[p]) \subseteq textStore

\* C13: no lock keeps two callers apart: a caller can start its run whatever
\* the other caller is doing, and every undisturbed run whose duplicate check
\* found nothing on a document with text makes the text write and emits
\* "Added N text chunks".
C13_ConcurrentDuplicateRace ==
  \A p \in Procs :
    LET r == run[p]
    IN  /\ r.pc = "idle"
             => ENABLED (\E path \in Paths, entry \in Entries :
                           StartConcurrent(p, path, entry))
        /\ (/\ r.pc = "done" /\ ~r.fault /\ r.tChk = "miss"
            /\ \E i \in 1..Len(FileAt(r.path).pages) :
                 FileAt(r.path).pages[i] \notin BlankTexts)
             => (r.tAdd = 1 /\ "AddedText" \in Kinds(r.ev))

\* both callers ran on the same never-ingested document with the same
\* fingerprint, both duplicate checks found nothing, and both runs emitted
\* "Added N text chunks"
C13_Witness ==
  /\ run["A"].path = run["B"].path
  /\ \A p \in Procs :
       /\ run[p].pc = "done" /\ ~run[p].fault
       /\ run[p].hash = calculate_content_hash(run[p].path, FALSE)
       /\ run[p].tChk = "miss" /\ ~run[p].tHadF
       /\ "AddedText" \in Kinds(run[p].ev)

\* C14: two calls of generate_doc_id for text return the same id exactly
\* when they were given the same fingerprint, page number and index.
C14_TextIdInjective ==
  \A i, j \in 1..Len(calls) :
    (calls[i].fn = "generate_doc_id" /\ calls[j].fn = "generate_doc_id")
      => (calls[i].result = calls[j].result <=> calls[i].args = calls[j].args)

\* two calls with the same fingerprint and index and different page numbers
\* returned different ids
C14_Witness ==
  /\ Len(calls) = MaxCalls
  /\ calls[1].fn = "generate_doc_id" /\ calls[2].fn = "generate_doc_id"
  /\ calls[1].args[1] = calls[2].args[1]
  /\ calls[1].args[3] = calls[2].args[3]
  /\ calls[1].args[2] # calls[2].args[2]
  /\ calls[1].result # calls[2].result

\* C15: no JSON side-car file lists an image of its document for which the
\* describer returns the non-informative sentinel.
C15_RejectedImageLeavesNoTrace ==
  \A f \in sidecars : \A path \in Paths :
    \A i \in 1..Len(FileAt(path).images) :
      (/\ f.name = SidecarName(path)
       /\ analyze_image_with_context(FileAt(path).images[i]) = NoneValue)
        => ImagePath(path, FileAt(path).images[i]) \notin SeqToSet(f.metadata)

\* the images of a document the describer does not reject
InformativeImages(path) ==
  {i \in 1..Len(FileAt(path).images) :
     analyze_image_with_context(FileAt(path).images[i]) # NoneValue}

\* C16: the number in "Added N image captions" is the number of image units
\* the store holds for the document of the run, and it is the number of
\* images of the document that the describer did not reject.
C16_ImageCountIsImages ==
  \A p \in Procs :
    \A i \in Positions(run[p].ev, {"AddedImages"}) :
      /\ run[p].ev[i].n =
           Cardinality({q \in imageStore :
                          /\ q.source_file = Basename(run[p].path)
                          /\ q.company = CompanyName(run[p].path)})
      /\ run[p].ev[i].n = Cardinality(InformativeImages(run[p].path))

\* C18: a text duplicate check that returned while the text store held a
\* text unit under the document's source name reports the document as
\* existing, and the run emits the text skip event.
C18_TextSourceNameFallback ==
  \A p \in Procs :
    (run[p].tChk \in {"hit", "miss"} /\ run[p].tHadN)
      => (run[p].tChk = "hit" /\ "TextSkip" \in Kinds(run[p].ev))

\* two documents that embed an image with the same raw bytes
SharedImage(path1, path2) ==
  \E i \in 1..Len(FileAt(path1).images), j \in 1..Len(FileAt(path2).images) :
    FileAt(path1).images[i].bytes = FileAt(path2).images[j].bytes

\* C19: a finished, undisturbed run that made its image duplicate check on a
\* document that shares an image with the differently named document whose
\* image units the run before it wrote has emitted the image skip event and
\* has made no image write.
C19_PerImageFingerprintSurvives ==
  \A p \in Procs :
    (/\ run[p].pc = "done" /\ ~run[p].fault
     /\ run[p].iChk # <<>>
     /\ run[p].prev.wroteImages
     /\ run[p].prev.path # run[p].path
     /\ Basename(run[p].prev.path) # Basename(run[p].path)
     /\ SharedImage(run[p].prev.path, run[p].path))
      => ("ImageSkip" \in Kinds(run[p].ev) /\ run[p].iAdd = 0)

\* priority of a tier: per-image fingerprint, document fingerprint, source name
TierRank(key) ==
  CASE key = "image_content_hash" -> 1
    [] key = "content_hash" -> 2
    [] OTHER -> 3

StoredImages(r) ==
  {q \in imageStore : /\ q.source_file = Basename(r.path)
                      /\ q.company = CompanyName(r.path)}

\* C20 as stated: the final event of a finished run that wrote both text and
\* images contains "Added N text chunks" and "Added M image captions".
C20_FinalEventHasBothAdded ==
  \A p \in Procs :
    (run[p].pc = "done" /\ run[p].wroteText /\ run[p].wroteImages)
      => {"Added {N} text chunks", "Added {N} image captions"}
           \subseteq MatchableSubstrings(Out(run[p])[Len(Out(run[p]))].kind)

\* C20 amended: a finished run that wrote both text and images has emitted
\* one "Added N text chunks" event and after it one "Added M image captions"
\* event, N and M the numbers of units the run wrote, and its final event
\* is the summary "Completed ingestion for <file>", which contains neither.
C20_AddedEventsThenSummary ==
  \A p \in Procs :
    LET r == run[p]
        e == r.ev
        out == Out(r)
    IN  (r.pc = "done" /\ r.wroteText /\ r.wroteImages)
          => /\ Cardinality(Positions(e, {"AddedText"})) = 1
             /\ Cardinality(Positions(e, {"AddedImages"})) = 1
             /\ \A i \in Positions(e, {"AddedText"}) :
                  /\ e[i].n = Cardinality(WrittenText(r))
                  /\ WrittenText(r) \subseteq textStore
                  /\ \A j \in Positions(e, {"AddedImages"}) :
                       /\ i < j /\ j < Len(e)
                       /\ e[j].n = Cardinality(StoredImages(r))
             /\ out[Len(out)].kind = "CompletedIngestion"
             /\ MatchableSubstrings(out[Len(out)].kind) = {}

\* a finished run that wrote text units and image units and reported both
C20_Witness ==
  \E p \in Procs :
    /\ run[p].pc = "done" /\ run[p].wroteText /\ run[p].wroteImages
    /\ WrittenText(run[p]) # {} /\ StoredImages(run[p]) # {}
    /\ {"AddedText", "AddedImages"} \subseteq Kinds(run[p].ev)
    /\ Out(run[p])[Len(Out(run[p]))].kind = "CompletedIngestion"

\* the 1-based numbers of the pages of a document that hold text
TextPages(path) ==
  {i \in 1..Len(FileAt(path).pages) : FileAt(path).pages[i] \notin BlankTexts}

\* the page number of the unit run r wrote at position k of its id list
WrittenPage(r, k) ==
  (CHOOSE q \in WrittenText(r) : q.id = r.tIds[k]).page_num

\* C21: the text units a run wrote belong to exactly the pages of the
\* document that hold text, under their 1-based page numbers and in page
\* order, each with text of its page; no unit of the text store belongs to
\* an empty or whitespace-only page.
C21_SegmenterPages ==
  /\ \A p \in Procs :
       run[p].wroteText =>
         /\ {q.page_num : q \in WrittenText(run[p])} = TextPages(run[p].path)
         /\ \A k, l \in 1..Len(run[p].tIds) :
              k < l => WrittenPage(run[p], k) <= WrittenPage(run[p], l)
         /\ \A q \in WrittenText(run[p]) :
              q.page_content \in
                {c.page_content : c \in SeqToSet(ChunksOf(
                   [page_content |-> FileAt(run[p].path).pages[q.page_num],
                    metadata |-> <<>>]))}
  /\ \A q \in textStore : \E path \in Paths :
       /\ q.source_file = Basename(path)
       /\ q.page_num \in TextPages(path)

\* a run on a document with an empty page between two pages of text wrote
\* units for the two pages of text only
C21_Witness ==
  \E p \in Procs :
    /\ run[p].wroteText
    /\ \E i, j, k \in 1..Len(FileAt(run[p].path).pages) :
         /\ i < j /\ j < k
         /\ {q.page_num : q \in WrittenText(run[p])} = {i, k}
         /\ FileAt(run[p].path).pages[j] \in BlankTexts
    /\ WrittenText(run[p]) \subseteq textStore

ImageUnitsOf(path) ==
  LET docs == ImageDocuments(path, Absent)
  IN  {Point(ImageIds(docs)[i], docs[i].metadata, docs[i].page_content) :
         i \in 1..Len(docs)}

\* C29: an image write for one document leaves the image units stored for
\* another document in place: after a run wrote image units for a document,
\* the units the run before it wrote for a different document are still in
\* the image store, also when the two documents have the same file name.
C29_ImageUnitsNotOverwritten ==
  \A p \in Procs :
    (/\ run[p].pc = "done" /\ run[p].wroteImages
     /\ run[p].prev.wroteImages
     /\ run[p].prev.path # run[p].path
     /\ FileAt(run[p].prev.path).images # FileAt(run[p].path).images)
      => ImageUnitsOf(run[p].prev.path) \subseteq imageStore

\* C28: a run on a readable document that was not ingested before and has
\* text but no image writes its text, emits "No images found in PDF.", and
\* ends DONE with the final summary, without an error event.
C28_NoImagesCompletes ==
  \A p \in Procs :
    LET r == run[p]
    IN  (/\ r.pc = "done" /\ ~r.fault /\ r.tChk = "miss"
         /\ TextPages(r.path) # {}
         /\ FileAt(r.path).images = <<>>)
          => /\ r.wroteText
             /\ "NoImages" \in Kinds(Out(r))
             /\ Kinds(Out(r)) \cap ErrorKinds = {}
             /\ r.outcome = "DONE"
             /\ Out(r)[Len(Out(r))].kind \in SummaryKinds

\* C26: the image stage writes all or nothing: a finished run on a document
\* with images whose image duplicate checks found nothing emitted one "Added
\* ... image captions" event after one add_documents call, and a run whose
\* check found a stored unit emitted "already exists in image store" and
\* wrote no image unit.
C26_ImagesAllOrNothing ==
  \A p \in Procs :
    LET r == run[p]
        hit == \E i \in 1..Len(r.iChk) : r.iChk[i] = "hit"
    IN  (/\ r.pc = "done" /\ ~r.fault /\ r.iChk # <<>>
         /\ FileAt(r.path).images # <<>>)
          => /\ hit => ("ImageSkip" \in Kinds(Out(r)) /\ r.iAdd = 0)
             /\ ~hit => (/\ r.iAdd = 1 /\ r.wroteImages
                         /\ "AddedImages" \in Kinds(Out(r)))

\* C25: two concurrent runs on one unmodified document that both passed the
\* text duplicate check and both wrote computed the same id list, and the
\* text store holds as many text units of the document as one run writes.
C25_RaceLeavesNoDuplicates ==
  \A p1, p2 \in Procs :
    (/\ p1 # p2
     /\ run[p1].path = run[p2].path
     /\ run[p1].pc = "done" /\ run[p2].pc = "done"
     /\ run[p1].tChk = "miss" /\ run[p2].tChk = "miss"
     /\ run[p1].wroteText /\ run[p2].wroteText)
      => /\ run[p1].tIds = run[p2].tIds
         /\ Cardinality({q \in textStore :
                           q.source_file = Basename(run[p1].path)})
              = Len(run[p1].tIds)

C24_ContextAtMost800Chars ==
  \A i \in 1..Len(calls) :
    calls[i].fn = "get_comprehensive_image_context"
      => CharLen(calls[i].result) <= MaxContextChars

\* the images of a call of get_image_description that were described: the
\* analysis did not fail and the describer did not reject the image
Described(c) ==
  {k \in 1..Len(FileAt(c.args.path).images) :
     /\ c.args.failures[k] = "none"
     /\ DescriberReply(FileAt(c.args.path).images[k]) # "INVALID_IMAGE"}

\* C30: get_image_description records a caption exactly for the images that
\* were described: an image whose analysis failed has no entry in
\* image_analyses and is not counted in successfully_analyzed, and the
\* images after it are still analysed.
C30_CaptionsOnlyForDescribed ==
  \A i \in 1..Len(calls) :
    calls[i].fn = "get_image_description"
      => LET c == calls[i]
             images == FileAt(c.args.path).images
             stored == {c.result.image_analyses[j].image_path :
                          j \in 1..Len(c.result.image_analyses)}
         IN  /\ stored = {ImagePath(c.args.path, images[k]) : k \in Described(c)}
             /\ c.result.successfully_analyzed = Cardinality(Described(c))

\* the position in the batch stream of the "Downloaded" event of file k
DownloadedAt(k) ==
  CHOOSE i \in Positions(batch.ev, {"Downloaded"}) :
    Cardinality({j \in Positions(batch.ev, {"Downloaded"}) : j <= i}) = k

\* the events of file k in the stream of a finished batch
EventsOfFile(k) ==
  SubSeq(batch.ev, DownloadedAt(k) + 1,
         IF k < Len(batch.files) THEN DownloadedAt(k + 1) - 1
         ELSE Len(batch.ev) - 1)

\* C22: in a batch over downloaded files every file is processed whatever
\* happened to the files before it: the stream of a finished batch holds one
\* "Downloaded" event per file, followed by that file's own events (the
\* missing-file error for a missing file, "Processing document" and what
\* follows for any other), and ends with the completion event; the batch
\* stops early only when the download itself fails.
C22_BatchIsolation ==
  /\ batch.pc = "aborted" => Positions(batch.ev, {"Downloaded"}) = {}
  /\ (batch.pc = "done" /\ batch.files # <<>>)
       => /\ Cardinality(Positions(batch.ev, {"Downloaded"})) = Len(batch.files)
          /\ batch.ev[Len(batch.ev)].kind = "BatchCompleted"
          /\ Positions(batch.ev, {"BatchCompleted"}) = {Len(batch.ev)}
          /\ \A k \in 1..Len(batch.files) :
               /\ EventsOfFile(k) # <<>>
               /\ EventsOfFile(k)[1].kind =
                    IF PathExists(batch.files[k]) THEN "Processing" ELSE "ErrNoFile"
               /\ Positions(EventsOfFile(k), {"Processing", "ErrNoFile"}) = {1}

\* a finished batch whose first file failed (missing, or an error while
\* processing) and whose second file was processed and written
C22_Witness ==
  /\ batch.pc = "done" /\ Len(batch.files) >= 2
  /\ Kinds(EventsOfFile(1)) \cap {"ErrNoFile", "ErrorWhile"} # {}
  /\ "AddedText" \in Kinds(EventsOfFile(2))
  /\ batch.ev[Len(batch.ev)].kind = "BatchCompleted"

====
